---- MODULE Spec2Model ----
\* Model of the personal finance tracker (src/main.cpp): the account controller
\* Finance::User (balance, menu loop, recording operations) and the ledger
\* Finance::FinanceManager (transaction and investment sequences).
\*
\* Amounts are C++ doubles in the source; the model uses integers (whole INR),
\* so floating-point rounding of balance += amt / balance -= amt is not modelled.
\* std::cin >> value never yields NaN or an infinity (such entries set failbit
\* and are re-prompted), so every value a prompt returns is a finite number.
EXTENDS Integers, Sequences, FiniteSets, TLC

\* ---------------------------------------------------------------- bounds
\* Total number of records the two ledger sequences may hold in a run.
MaxRecords == 2

\* Values a user may type at the prompts.
MenuChoices == -1 .. 7
TypeChoices == 0 .. 3
Amounts == {-4500, 0, 1500, 3000, 4000}
Durations == {-1, 2}
Monthlies == {0, 1000}
Descriptions == {"Rent", "Salary"}

\* Values typed in the runs that exercise the maturity projections.
MaturityPrincipals == {0, 1000, 3000}
MaturityDurations == {-1, 1, 2, 5}
MaturityMonthlies == {1000}

\* ------------------------------------------------------ program constants
MINIMUM_BALANCE == 1000
initialBalance == 5000

\* ------------------------------------------------------------ arithmetic
\* The C++ doubles of the maturity formulas are modelled as exact rationals
\* [sign, num, den]: sign in {-1, 0, 1}, num and den natural numbers written as
\* sequences of base-Limb digits, least significant first, without leading
\* zeros (<<>> is zero); den > 0. Rounding of double operations and overflow
\* to infinity are not modelled.
Limb == 10000

RECURSIVE BigOf(_)
BigOf(n) == IF n = 0 THEN <<>> ELSE <<n % Limb>> \o BigOf(n \div Limb)

RECURSIVE BigStrip(_)
BigStrip(x) ==
    IF x = <<>> THEN <<>>
    ELSE IF x[Len(x)] = 0 THEN BigStrip(SubSeq(x, 1, Len(x) - 1))
    ELSE x

RECURSIVE BigAddC(_, _, _)
BigAddC(x, y, c) ==
    IF x = <<>> /\ y = <<>> THEN (IF c = 0 THEN <<>> ELSE <<c>>)
    ELSE LET a == IF x = <<>> THEN 0 ELSE Head(x)
             b == IF y = <<>> THEN 0 ELSE Head(y)
             s == a + b + c
         IN  <<s % Limb>> \o BigAddC(IF x = <<>> THEN <<>> ELSE Tail(x),
                                      IF y = <<>> THEN <<>> ELSE Tail(y),
                                      s \div Limb)
BigAdd(x, y) == BigAddC(x, y, 0)

\* x - y for x >= y.
RECURSIVE BigSubB(_, _, _)
BigSubB(x, y, b) ==
    IF x = <<>> THEN <<>>
    ELSE LET s == Head(x) - (IF y = <<>> THEN 0 ELSE Head(y)) - b
         IN  <<(s + Limb) % Limb>>
                 \o BigSubB(Tail(x), IF y = <<>> THEN <<>> ELSE Tail(y),
                            IF s < 0 THEN 1 ELSE 0)
BigSub(x, y) == BigStrip(BigSubB(x, y, 0))

\* -1, 0 or 1 as x < y, x = y or x > y.
RECURSIVE BigCmpFrom(_, _, _)
BigCmpFrom(x, y, i) ==
    IF i = 0 THEN 0
    ELSE IF x[i] < y[i] THEN -1
    ELSE IF x[i] > y[i] THEN 1
    ELSE BigCmpFrom(x, y, i - 1)
BigCmp(x, y) ==
    IF Len(x) < Len(y) THEN -1
    ELSE IF Len(x) > Len(y) THEN 1
    ELSE BigCmpFrom(x, y, Len(x))

\* x * k for one digit 0 <= k < Limb.
RECURSIVE BigMulDigitC(_, _, _)
BigMulDigitC(x, k, c) ==
    IF x = <<>> THEN (IF c = 0 THEN <<>> ELSE <<c>>)
    ELSE LET s == Head(x) * k + c
         IN  <<s % Limb>> \o BigMulDigitC(Tail(x), k, s \div Limb)
BigMulDigit(x, k) == IF k = 0 THEN <<>> ELSE BigMulDigitC(x, k, 0)

\* x shifted left by k digits.
RECURSIVE BigShift(_, _)
BigShift(x, k) ==
    IF x = <<>> \/ k = 0 THEN x ELSE <<0>> \o BigShift(x, k - 1)

\* x * y, splitting y in halves.
RECURSIVE BigMulBy(_, _)
BigMulBy(x, y) ==
    IF x = <<>> \/ y = <<>> THEN <<>>
    ELSE IF Len(y) = 1 THEN BigMulDigit(x, y[1])
    ELSE LET h == Len(y) \div 2
         IN  BigAdd(BigMulBy(x, BigStrip(SubSeq(y, 1, h))),
                    BigShift(BigMulBy(x, SubSeq(y, h + 1, Len(y))), h))
BigMul(x, y) == IF Len(x) < Len(y) THEN BigMulBy(y, x) ELSE BigMulBy(x, y)

RECURSIVE GCD(_, _)
GCD(a, b) == IF b = 0 THEN a ELSE GCD(b, a % b)

\* The value of a number of at most two digits.
BigSmall(x) == IF x = <<>> THEN 0
               ELSE IF Len(x) = 1 THEN x[1] ELSE x[1] + Limb * x[2]

\* The rational s * n / d; fractions of small numbers are kept in lowest terms.
Rat(s, n, d) ==
    IF n = <<>> THEN [sign |-> 0, num |-> <<>>, den |-> <<1>>]
    ELSE IF Len(n) <= 2 /\ Len(d) <= 2
      THEN LET g == GCD(BigSmall(n), BigSmall(d))
           IN  [sign |-> s, num |-> BigOf(BigSmall(n) \div g),
                den |-> BigOf(BigSmall(d) \div g)]
      ELSE [sign |-> s, num |-> n, den |-> d]
RatOf(n) == Rat(IF n < 0 THEN -1 ELSE 1, BigOf(IF n < 0 THEN -n ELSE n), <<1>>)
\* The decimal literal n / d, d > 0.
RatLit(n, d) == Rat(IF n < 0 THEN -1 ELSE 1, BigOf(IF n < 0 THEN -n ELSE n), BigOf(d))

RatNeg(x) == Rat(-x.sign, x.num, x.den)
RatMul(x, y) == Rat(x.sign * y.sign, BigMul(x.num, y.num), BigMul(x.den, y.den))
\* x / y for y # 0.
RatDiv(x, y) == Rat(x.sign * y.sign, BigMul(x.num, y.den), BigMul(x.den, y.num))
RatAdd(x, y) ==
    LET same == x.den = y.den
        a == IF same THEN x.num ELSE BigMul(x.num, y.den)
        b == IF same THEN y.num ELSE BigMul(y.num, x.den)
        d == IF same THEN x.den ELSE BigMul(x.den, y.den)
    IN  IF x.sign = 0 THEN y
        ELSE IF y.sign = 0 THEN x
        ELSE IF x.sign = y.sign THEN Rat(x.sign, BigAdd(a, b), d)
        ELSE IF BigCmp(a, b) >= 0 THEN Rat(x.sign, BigSub(a, b), d)
        ELSE Rat(y.sign, BigSub(b, a), d)
RatSub(x, y) == RatAdd(x, RatNeg(y))
RatEq(x, y) ==
    /\ x.sign = y.sign
    /\ IF x.den = y.den THEN x.num = y.num
       ELSE BigMul(x.num, y.den) = BigMul(y.num, x.den)

\* b^n for n >= 0, by repeated squaring.
RECURSIVE BigPow(_, _)
BigPow(b, n) ==
    IF n = 0 THEN <<1>>
    ELSE LET h == BigPow(b, n \div 2)
             sq == BigMul(h, h)
         IN  IF n % 2 = 0 THEN sq ELSE BigMul(sq, b)

\* std::pow(x, n) for an integer exponent n (x # 0 when n < 0).
pow(x, n) ==
    IF n >= 0
      THEN Rat(IF n % 2 = 0 THEN 1 ELSE x.sign, BigPow(x.num, n), BigPow(x.den, n))
      ELSE Rat(IF n % 2 = 0 THEN 1 ELSE x.sign, BigPow(x.den, -n), BigPow(x.num, -n))

\* floor(x / y) for y > 0, found by bisection between lo and hi with
\* lo * y <= x < hi * y.
RECURSIVE BigDivBetween(_, _, _, _)
BigDivBetween(x, y, lo, hi) ==
    IF hi - lo <= 1 THEN lo
    ELSE LET mid == (lo + hi) \div 2
         IN  IF BigCmp(BigMul(BigOf(mid), y), x) <= 0
               THEN BigDivBetween(x, y, mid, hi)
               ELSE BigDivBetween(x, y, lo, mid)
RECURSIVE BigDivBelow(_, _, _)
BigDivBelow(x, y, hi) ==
    IF BigCmp(BigMul(BigOf(hi), y), x) > 0
      THEN BigDivBetween(x, y, hi \div 2, hi)
      ELSE BigDivBelow(x, y, 2 * hi)
BigDiv(x, y) == BigDivBelow(x, y, 1)

\* The integers nearest to 100 * x: what std::fixed << std::setprecision(2)
\* can print for x, in hundredths. An exact tie is decided by the rounding
\* error of the double, so both neighbours are possible.
Hundredths(x) ==
    LET n == BigMulDigit(x.num, 100)
        q == BigDiv(n, x.den)
        twice == BigMulDigit(BigSub(n, BigMul(BigOf(q), x.den)), 2)
        c == BigCmp(twice, x.den)
    IN  IF c < 0 THEN {x.sign * q}
        ELSE IF c > 0 THEN {x.sign * (q + 1)}
        ELSE {x.sign * q, x.sign * (q + 1)}


\* A local variable that has not been read from the console yet in the current
\* menu iteration is <<>>; once getNumericInput returned v it is <<v>>.
None == <<>>
Some(v) == <<v>>

VARIABLES
    balance,        \* User::balance
    transactions,   \* FinanceManager::transactions, in vector order
    investments,    \* FinanceManager::investments, in vector order
    pc,             \* the prompt the controller is blocked in, or "exit"
    choice,         \* run(): int choice
    invChoice,      \* makeInvestment(): int choice
    amt,            \* recordIncome()/recordExpenditure(): double amt
    principal,      \* makeInvestment(): double principal
    duration,       \* makeInvestment(): int duration
    pre,            \* balance and ledger when the current menu selection was read
    msg,            \* the last result or diagnostic line written to std::cout
    cin,            \* std::cin: "good" while input remains, else how it ended
    report          \* entries the projections view wrote in this menu iteration

vars == <<balance, transactions, investments, pc, choice, invChoice, amt,
          principal, duration, pre, msg, cin, report>>

ledger == <<balance, transactions, investments>>
locals == <<invChoice, amt, principal, duration>>

snapshot == [balance |-> balance, transactions |-> transactions,
             investments |-> investments]

NumericPrompts == {"menu", "income_amt", "exp_amt", "inv_type",
                   "inv_principal", "inv_duration", "inv_monthly"}

\* ------------------------------------------------------------ the records
Income(a, d) == [type |-> "Income", amount |-> a, description |-> d]
Expenditure(a, d) == [type |-> "Expenditure", amount |-> a, description |-> d]
SIP(p, dur, m) == [type |-> "SIP", principal |-> p, durationYears |-> dur,
                   monthlyInvestment |-> m]
FD(p, dur) == [type |-> "Fixed Deposit", principal |-> p, durationYears |-> dur]

\* ------------------------------------------------------ maturity values
SIP_ANNUAL_RATE == RatLit(96, 1000)
FD_ANNUAL_RATE == RatLit(71, 1000)

\* Variant of SIP::getMaturityAmount: the contributions are valued as an
\* annuity due (each one earns one more month).
SIP_getMaturityAmount_annuityDue(p, dur, m) ==
    LET monthly == RatAdd(RatOf(1), RatDiv(SIP_ANNUAL_RATE, RatOf(12)))
        growth == pow(monthly, dur * 12)
        finalAmount == RatMul(RatOf(p), growth)
        monthlyContributionFutureValue ==
            RatMul(RatMul(RatOf(m), monthly),
                   RatDiv(RatSub(growth, RatOf(1)),
                          RatDiv(SIP_ANNUAL_RATE, RatOf(12))))
    IN  RatAdd(finalAmount, monthlyContributionFutureValue)
\* SIP::getMaturityAmount
SIP_getMaturityAmount(p, dur, m) ==
    LET growth == pow(RatAdd(RatOf(1), RatDiv(SIP_ANNUAL_RATE, RatOf(12))),
                      dur * 12)
        finalAmount == RatMul(RatOf(p), growth)
        monthlyContributionFutureValue ==
            RatMul(RatOf(m),
                   RatDiv(RatSub(growth, RatOf(1)),
                          RatDiv(SIP_ANNUAL_RATE, RatOf(12))))
    IN  RatAdd(finalAmount, monthlyContributionFutureValue)

\* Variant of FD::getMaturityAmount: compounds monthly, as the SIP does.
FD_getMaturityAmount_monthly(p, dur) ==
    RatMul(RatOf(p),
           pow(RatAdd(RatOf(1), RatDiv(FD_ANNUAL_RATE, RatOf(12))), dur * 12))
\* FD::getMaturityAmount
FD_getMaturityAmount(p, dur) ==
    RatMul(RatOf(p), pow(RatAdd(RatOf(1), FD_ANNUAL_RATE), dur))

\* Investment::getMaturityAmount, dispatched on the dynamic type.
getMaturityAmount(inv) ==
    IF inv.type = "SIP"
      THEN SIP_getMaturityAmount(inv.principal, inv.durationYears,
                                 inv.monthlyInvestment)
      ELSE FD_getMaturityAmount(inv.principal, inv.durationYears)

\* The maturity value of every investment the modelled inputs can create and
\* the amounts it can be printed as, computed once.
EnterableInvestments ==
    LET ps == Amounts \cup MaturityPrincipals
        ds == Durations \cup MaturityDurations
    IN  {SIP(p, d, m) : p \in ps, d \in ds, m \in Monthlies \cup MaturityMonthlies}
            \cup {FD(p, d) : p \in ps, d \in ds}
MaturityTable ==
    {<<row[1], row[2], Hundredths(row[2])>> :
        row \in {<<inv, getMaturityAmount(inv)>> : inv \in EnterableInvestments}}
MaturityRow(inv) == CHOOSE row \in MaturityTable : row[1] = inv

\* ------------------------------------------------------------- the ledger
\* Variant of addTransaction: inserts at the front instead of push_back.
addTransaction_prepend(t) == <<t>> \o transactions
addTransaction(t) == Append(transactions, t)

addInvestment(i) == Append(investments, i)

\* Variant of displayTransactionHistory: consumes the vector while printing.
displayTransactionHistory_drain ==
    /\ msg' = "--- Transaction History ---"
    /\ transactions' = <<>>
    /\ UNCHANGED <<balance, investments>>
displayTransactionHistory ==
    /\ msg' = "--- Transaction History ---"
    /\ UNCHANGED <<balance, transactions, investments>>

displayInvestmentPortfolio ==
    /\ msg' = "--- Investment Portfolio ---"
    /\ UNCHANGED <<balance, transactions, investments>>

\* The entries displayInvestmentProjections can write for investments[k]:
\* "Portfolio Item <index> (<type>): Matures to: <shown> INR", where maturity
\* is the value handed to the stream and shown the printed amount in
\* hundredths.
ProjectionEntries(k) ==
    {[index |-> k, type |-> investments[k].type,
      maturity |-> MaturityRow(investments[k])[2], shown |-> s] :
        s \in MaturityRow(investments[k])[3]}

RECURSIVE ProjectionReports(_)
\* The reports the loop can have written after i = 0 .. n - 1.
ProjectionReports(n) ==
    IF n = 0 THEN {<<>>}
    ELSE {Append(r, e) : r \in ProjectionReports(n - 1),
                          e \in ProjectionEntries(n)}

\* Variant of displayInvestmentProjections: prints i instead of i + 1.
displayInvestmentProjections_zeroBased ==
    /\ msg' = "--- Investment Maturity Projections ---"
    /\ report' \in {[i \in 1 .. Len(r) |-> [r[i] EXCEPT !.index = i - 1]] :
                       r \in ProjectionReports(Len(investments))}
    /\ UNCHANGED <<balance, transactions, investments>>
displayInvestmentProjections ==
    /\ msg' = "--- Investment Maturity Projections ---"
    /\ report' \in ProjectionReports(Len(investments))
    /\ UNCHANGED <<balance, transactions, investments>>

\* --------------------------------------------------------- the controller
Init ==
    /\ balance = initialBalance
    /\ transactions = <<>>
    /\ investments = <<>>
    /\ pc = "menu"
    /\ choice = -1
    /\ invChoice = None
    /\ amt = None
    /\ principal = None
    /\ duration = None
    /\ pre = [balance |-> initialBalance, transactions |-> <<>>,
              investments |-> <<>>]
    /\ msg = "--- Welcome to your Personal Finance Management System! ---"
    /\ cin = "good"
    /\ report = <<>>

\* getNumericInput: a malformed entry prints the diagnostic and repeats the
\* same prompt; nothing else changes.
getNumericInput_invalid ==
    /\ pc \in NumericPrompts
    /\ cin = "good"
    /\ msg' = "Invalid input. Please enter a number."
    /\ UNCHANGED <<balance, transactions, investments, pc, choice, invChoice,
                   amt, principal, duration, pre>>
    /\ UNCHANGED <<cin, report>>

\* getNumericInput when std::cin ends at the prompt, either with nothing left
\* to extract ("eof") or directly after the digits of a number, without a line
\* end ("eof_number"). Both leave eofbit set, so std::cin.good() is false: the
\* diagnostic is printed and, clear() and ignore() finding no more input, every
\* later pass of the loop fails the same way.
EndOfInput == {"eof", "eof_number"}
getNumericInput_eof(k) ==
    /\ pc \in NumericPrompts
    /\ cin = "good"
    /\ cin' = k
    /\ msg' = "Invalid input. Please enter a number."
    /\ UNCHANGED <<balance, transactions, investments, pc, choice, invChoice,
                   amt, principal, duration, pre, report>>

\* Variant of run: the default branch leaves the loop as case 0 does.
run_invalidExits(c) ==
    /\ pc = "menu"
    /\ cin = "good"
    /\ c \in 1 .. 3 => Len(transactions) + Len(investments) < MaxRecords
    /\ choice' = c
    /\ pre' = snapshot
    /\ invChoice' = None /\ amt' = None /\ principal' = None /\ duration' = None
    /\ CASE c = 1 -> pc' = "income_amt" /\ UNCHANGED <<ledger, msg>>
         [] c = 2 -> pc' = "exp_amt" /\ UNCHANGED <<ledger, msg>>
         [] c = 3 -> pc' = "inv_type" /\ msg' = "--- New Investment ---"
                     /\ UNCHANGED ledger
         [] c = 4 -> pc' = "menu" /\ displayTransactionHistory
         [] c = 5 -> pc' = "menu" /\ displayInvestmentPortfolio
         [] c = 6 -> pc' = "menu" /\ displayInvestmentProjections
         [] c = 0 -> pc' = "exit" /\ msg' = "Exiting. Goodbye!"
                     /\ UNCHANGED ledger
         [] OTHER -> pc' = "exit" /\ msg' = "Invalid option. Please try again."
                     /\ UNCHANGED ledger
    /\ c # 6 => report' = <<>>
    /\ UNCHANGED cin
\* User::run, one iteration of the loop: the selection c is read and dispatched.
\* The recording operations are entered only while the ledger has room.
run(c) ==
    /\ pc = "menu"
    /\ cin = "good"
    /\ c \in 1 .. 3 => Len(transactions) + Len(investments) < MaxRecords
    /\ choice' = c
    /\ pre' = snapshot
    /\ invChoice' = None /\ amt' = None /\ principal' = None /\ duration' = None
    /\ CASE c = 1 -> pc' = "income_amt" /\ UNCHANGED <<ledger, msg>>
         [] c = 2 -> pc' = "exp_amt" /\ UNCHANGED <<ledger, msg>>
         [] c = 3 -> pc' = "inv_type" /\ msg' = "--- New Investment ---"
                     /\ UNCHANGED ledger
         [] c = 4 -> pc' = "menu" /\ displayTransactionHistory
         [] c = 5 -> pc' = "menu" /\ displayInvestmentPortfolio
         [] c = 6 -> pc' = "menu" /\ displayInvestmentProjections
         [] c = 0 -> pc' = "exit" /\ msg' = "Exiting. Goodbye!"
                     /\ UNCHANGED ledger
         [] OTHER -> pc' = "menu" /\ msg' = "Invalid option. Please try again."
                     /\ UNCHANGED ledger
    /\ c # 6 => report' = <<>>
    /\ UNCHANGED cin

\* User::recordIncome
recordIncome_amount(a) ==
    /\ pc = "income_amt"
    /\ cin = "good"
    /\ amt' = Some(a)
    /\ pc' = "income_desc"
    /\ UNCHANGED <<ledger, choice, invChoice, principal, duration, pre, msg>>
    /\ UNCHANGED <<cin, report>>

\* Variant of recordIncome_commit: balance -= amt instead of balance += amt.
recordIncome_commit_subtracts(d) ==
    /\ pc = "income_desc"
    /\ cin = "good"
    /\ balance' = balance - amt[1]
    /\ transactions' = addTransaction(Income(amt[1], d))
    /\ msg' = "Income recorded successfully."
    /\ pc' = "menu"
    /\ UNCHANGED <<investments, choice, invChoice, amt, principal, duration, pre>>
    /\ UNCHANGED <<cin, report>>
recordIncome_commit(d) ==
    /\ pc = "income_desc"
    /\ cin = "good"
    /\ balance' = balance + amt[1]
    /\ transactions' = addTransaction(Income(amt[1], d))
    /\ msg' = "Income recorded successfully."
    /\ pc' = "menu"
    /\ UNCHANGED <<investments, choice, invChoice, amt, principal, duration, pre>>
    /\ UNCHANGED <<cin, report>>

\* User::recordExpenditure
\* Variants of expenditureDeclined: the guard tests balance alone; the guard
\* uses <= and so declines the boundary balance - amt = MINIMUM_BALANCE.
expenditureDeclined_ignoresAmount(a) == balance < MINIMUM_BALANCE
expenditureDeclined_strict(a) == balance - a <= MINIMUM_BALANCE
expenditureDeclined(a) == balance - a < MINIMUM_BALANCE

recordExpenditure_amount(a) ==
    /\ pc = "exp_amt"
    /\ cin = "good"
    /\ amt' = Some(a)
    /\ IF expenditureDeclined(a)
         THEN /\ msg' = "Error: Transaction declined."
              /\ pc' = "menu"
         ELSE /\ pc' = "exp_desc"
              /\ UNCHANGED msg
    /\ UNCHANGED <<ledger, choice, invChoice, principal, duration, pre>>
    /\ UNCHANGED <<cin, report>>

recordExpenditure_commit(d) ==
    /\ pc = "exp_desc"
    /\ cin = "good"
    /\ balance' = balance - amt[1]
    /\ transactions' = addTransaction(Expenditure(amt[1], d))
    /\ msg' = "Expenditure recorded successfully."
    /\ pc' = "menu"
    /\ UNCHANGED <<investments, choice, invChoice, amt, principal, duration, pre>>
    /\ UNCHANGED <<cin, report>>

\* User::makeInvestment
makeInvestment_type(c) ==
    /\ pc = "inv_type"
    /\ cin = "good"
    /\ invChoice' = Some(c)
    /\ pc' = IF c = 0 THEN "menu" ELSE "inv_principal"
    /\ UNCHANGED <<ledger, choice, amt, principal, duration, pre, msg>>
    /\ UNCHANGED <<cin, report>>

\* Variant of investmentFailed: <= instead of <.
investmentFailed_strict(p) == balance - p <= MINIMUM_BALANCE
investmentFailed(p) == balance - p < MINIMUM_BALANCE

makeInvestment_principal(p) ==
    /\ pc = "inv_principal"
    /\ cin = "good"
    /\ principal' = Some(p)
    /\ IF investmentFailed(p)
         THEN /\ msg' = "Error: Investment failed."
              /\ pc' = "menu"
         ELSE /\ pc' = "inv_duration"
              /\ UNCHANGED msg
    /\ UNCHANGED <<ledger, choice, invChoice, amt, duration, pre>>
    /\ UNCHANGED <<cin, report>>

\* Variant of makeInvestment_duration: the default branch also does
\* balance -= principal.
makeInvestment_duration_alwaysDeducts(dur) ==
    /\ pc = "inv_duration"
    /\ cin = "good"
    /\ duration' = Some(dur)
    /\ CASE invChoice[1] = 1 ->
              /\ pc' = "inv_monthly"
              /\ UNCHANGED <<ledger, msg>>
         [] invChoice[1] = 2 ->
              /\ investments' = addInvestment(FD(principal[1], dur))
              /\ balance' = balance - principal[1]
              /\ msg' = "FD investment made successfully."
              /\ pc' = "menu"
              /\ UNCHANGED transactions
         [] OTHER ->
              /\ balance' = balance - principal[1]
              /\ msg' = "Invalid investment type."
              /\ pc' = "menu"
              /\ UNCHANGED <<transactions, investments>>
    /\ UNCHANGED <<choice, invChoice, amt, principal, pre>>
    /\ UNCHANGED <<cin, report>>
\* Variant of makeInvestment_duration: the fixed deposit is also booked as an
\* Expenditure transaction.
makeInvestment_duration_booksExpenditure(dur) ==
    /\ pc = "inv_duration"
    /\ cin = "good"
    /\ duration' = Some(dur)
    /\ CASE invChoice[1] = 1 ->
              /\ pc' = "inv_monthly"
              /\ UNCHANGED <<ledger, msg>>
         [] invChoice[1] = 2 ->
              /\ investments' = addInvestment(FD(principal[1], dur))
              /\ transactions' =
                     addTransaction(Expenditure(principal[1], "Fixed Deposit"))
              /\ balance' = balance - principal[1]
              /\ msg' = "FD investment made successfully."
              /\ pc' = "menu"
         [] OTHER ->
              /\ msg' = "Invalid investment type."
              /\ pc' = "menu"
              /\ UNCHANGED ledger
    /\ UNCHANGED <<choice, invChoice, amt, principal, pre>>
    /\ UNCHANGED <<cin, report>>
makeInvestment_duration(dur) ==
    /\ pc = "inv_duration"
    /\ cin = "good"
    /\ duration' = Some(dur)
    /\ CASE invChoice[1] = 1 ->
              /\ pc' = "inv_monthly"
              /\ UNCHANGED <<ledger, msg>>
         [] invChoice[1] = 2 ->
              /\ investments' = addInvestment(FD(principal[1], dur))
              /\ balance' = balance - principal[1]
              /\ msg' = "FD investment made successfully."
              /\ pc' = "menu"
              /\ UNCHANGED transactions
         [] OTHER ->
              /\ msg' = "Invalid investment type."
              /\ pc' = "menu"
              /\ UNCHANGED ledger
    /\ UNCHANGED <<choice, invChoice, amt, principal, pre>>
    /\ UNCHANGED <<cin, report>>

\* Variant of makeInvestment_monthly: the SIP is added but balance -= principal
\* is left out.
makeInvestment_monthly_noDeduct(m) ==
    /\ pc = "inv_monthly"
    /\ cin = "good"
    /\ investments' = addInvestment(SIP(principal[1], duration[1], m))
    /\ msg' = "SIP investment made successfully."
    /\ pc' = "menu"
    /\ UNCHANGED <<balance, transactions, choice, invChoice, amt, principal,
                   duration, pre>>
    /\ UNCHANGED <<cin, report>>
makeInvestment_monthly(m) ==
    /\ pc = "inv_monthly"
    /\ cin = "good"
    /\ investments' = addInvestment(SIP(principal[1], duration[1], m))
    /\ balance' = balance - principal[1]
    /\ msg' = "SIP investment made successfully."
    /\ pc' = "menu"
    /\ UNCHANGED <<transactions, choice, invChoice, amt, principal, duration, pre>>
    /\ UNCHANGED <<cin, report>>

Next ==
    \/ getNumericInput_invalid
    \/ \E k \in EndOfInput : getNumericInput_eof(k)
    \/ \E c \in MenuChoices : run(c)
    \/ \E a \in Amounts : recordIncome_amount(a)
    \/ \E d \in Descriptions : recordIncome_commit(d)
    \/ \E a \in Amounts : recordExpenditure_amount(a)
    \/ \E d \in Descriptions : recordExpenditure_commit(d)
    \/ \E c \in TypeChoices : makeInvestment_type(c)
    \/ \E p \in Amounts : makeInvestment_principal(p)
    \/ \E dur \in Durations : makeInvestment_duration(dur)
    \/ \E m \in Monthlies : makeInvestment_monthly(m)

Spec == Init /\ [][Next]_vars

\* The runs in which only investments are made and projected, with the inputs
\* of the maturity examples.
NextMaturity ==
    \/ \E c \in {3, 6} : run(c)
    \/ \E c \in {1, 2} : makeInvestment_type(c)
    \/ \E p \in MaturityPrincipals : makeInvestment_principal(p)
    \/ \E dur \in MaturityDurations : makeInvestment_duration(dur)
    \/ \E m \in MaturityMonthlies : makeInvestment_monthly(m)

SpecMaturity == Init /\ [][NextMaturity]_vars

TypeOK ==
    /\ balance \in Int
    /\ pc \in NumericPrompts \cup {"income_desc", "exp_desc", "exit"}
    /\ cin \in {"good"} \cup EndOfInput
    /\ Len(transactions) + Len(investments) <= MaxRecords

\* ================================================================ claims
IsPrefix(s, t) == Len(s) <= Len(t) /\ SubSeq(t, 1, Len(s)) = s

\* The ledger is exactly as it was when the current menu selection was read.
Untouched ==
    /\ balance = pre.balance
    /\ transactions = pre.transactions
    /\ investments = pre.investments

\* Exactly one record was appended to the transaction sequence since the
\* current menu selection was read.
OneTransactionAppended ==
    /\ Len(transactions) = Len(pre.transactions) + 1
    /\ SubSeq(transactions, 1, Len(pre.transactions)) = pre.transactions

OneInvestmentAppended ==
    /\ Len(investments) = Len(pre.investments) + 1
    /\ SubSeq(investments, 1, Len(pre.investments)) = pre.investments

\* The last menu iteration committed an expenditure or an investment.
Committed ==
    /\ pc = "menu"
    /\ \/ choice = 2 /\ Len(transactions) > Len(pre.transactions)
       \/ choice = 3 /\ Len(investments) > Len(pre.investments)

\* C1: immediately after a committed recordExpenditure or makeInvestment,
\* whatever the starting balance and the entered amount, balance is at least
\* MINIMUM_BALANCE.
C1_MinimumAfterCommit == Committed => balance >= MINIMUM_BALANCE

\* An expenditure of -4500 committed from a balance of 500 (below the minimum).
C1_Witness ==
    /\ Committed
    /\ choice = 2
    /\ amt = Some(-4500)
    /\ pre.balance = 500
    /\ balance = 5000

\* C2: whenever control is back at the menu, balance is at least
\* MINIMUM_BALANCE.
C2_MinimumAtMenu == pc = "menu" => balance >= MINIMUM_BALANCE

\* C3: a completed recordExpenditure with entered amount a was rejected with
\* balance and both sequences unchanged if balance - a < 1000, and otherwise
\* (boundary included) decreased balance by exactly a and appended exactly one
\* Expenditure record with amount a.
C3_ExpenditureGuard ==
    (pc = "menu" /\ choice = 2 /\ amt # None) =>
        IF pre.balance - amt[1] < MINIMUM_BALANCE
          THEN Untouched
          ELSE /\ balance = pre.balance - amt[1]
               /\ OneTransactionAppended
               /\ transactions[Len(transactions)].type = "Expenditure"
               /\ transactions[Len(transactions)].amount = amt[1]
               /\ investments = pre.investments

\* 5000 -> expenditure 3000 "Rent" -> 2000 -> expenditure 1500 rejected.
C3_Witness ==
    /\ pc = "menu"
    /\ choice = 2
    /\ transactions = <<Expenditure(3000, "Rent")>>
    /\ amt = Some(1500)
    /\ pre.balance = 2000
    /\ balance = 2000

\* C4 (as claimed): a completed makeInvestment in which a principal p was
\* entered, with any type selection other than 0, was rejected with everything
\* unchanged if balance - p < 1000, and otherwise decreased balance by exactly p
\* and appended exactly one investment record with principal p.
C4_InvestmentGuardAnyType ==
    (pc = "menu" /\ choice = 3 /\ principal # None) =>
        IF pre.balance - principal[1] < MINIMUM_BALANCE
          THEN Untouched
          ELSE /\ balance = pre.balance - principal[1]
               /\ OneInvestmentAppended
               /\ investments[Len(investments)].principal = principal[1]
               /\ transactions = pre.transactions

\* C4 (amended): as above for the type selections 1 (SIP) and 2 (FD); for any
\* other non-zero selection whose principal passes the guard, the duration is
\* read and balance and both sequences are unchanged.
C4_InvestmentGuard ==
    (pc = "menu" /\ choice = 3 /\ principal # None) =>
        IF pre.balance - principal[1] < MINIMUM_BALANCE
          THEN Untouched
          ELSE IF invChoice[1] \in {1, 2}
            THEN /\ balance = pre.balance - principal[1]
                 /\ OneInvestmentAppended
                 /\ investments[Len(investments)].principal = principal[1]
                 /\ investments[Len(investments)].type =
                        (IF invChoice[1] = 1 THEN "SIP" ELSE "Fixed Deposit")
                 /\ transactions = pre.transactions
            ELSE duration # None /\ Untouched

\* A fixed deposit of 4000 committed from 5000: the boundary balance - p = 1000.
C4_Witness ==
    /\ pc = "menu"
    /\ choice = 3
    /\ invChoice = Some(2)
    /\ principal = Some(4000)
    /\ pre.balance = 5000
    /\ balance = 1000
    /\ Len(investments) = Len(pre.investments) + 1

\* C5: recordIncome with an entered amount a >= 0 is never rejected: once the
\* amount is read the operation is waiting for the description with nothing
\* changed, or it has completed with balance increased by exactly a, exactly one
\* Income record with amount a appended at the end of the transaction sequence
\* and the investment sequence unchanged.
C5_IncomeAlwaysSucceeds ==
    (choice = 1 /\ amt # None /\ amt[1] >= 0) =>
        \/ pc = "income_desc" /\ Untouched
        \/ /\ pc = "menu"
           /\ balance = pre.balance + amt[1]
           /\ OneTransactionAppended
           /\ transactions[Len(transactions)].type = "Income"
           /\ transactions[Len(transactions)].amount = amt[1]
           /\ investments = pre.investments

\* An income of 3000 recorded while the balance is below the minimum.
C5_Witness ==
    /\ pc = "menu"
    /\ choice = 1
    /\ amt = Some(3000)
    /\ pre.balance = 500
    /\ balance = 3500

\* The last menu iteration ended in a user-facing rejection.
InvalidMenuCode == choice \notin 0 .. 6
InvalidInvestmentType ==
    choice = 3 /\ invChoice # None /\ invChoice[1] \notin {0, 1, 2}
        /\ duration # None
InvestmentCancelled == choice = 3 /\ invChoice = Some(0)
ExpenditureRejected ==
    choice = 2 /\ amt # None /\ pre.balance - amt[1] < MINIMUM_BALANCE
InvestmentRejected ==
    choice = 3 /\ principal # None
        /\ pre.balance - principal[1] < MINIMUM_BALANCE

\* C6: every user-facing rejection (invalid main-menu code, invalid investment
\* type whatever principal and duration were entered, investment cancel, and
\* both balance-guard rejections) leaves control at the menu, not at Exit, with
\* balance and both sequences as they were before the operation started.
C6_RejectionsKeepState ==
    (InvalidMenuCode \/ InvalidInvestmentType \/ InvestmentCancelled
        \/ ExpenditureRejected \/ InvestmentRejected)
    => (pc = "menu" /\ Untouched)

\* Investment type 3 with principal 3000 (passing the guard) and duration 2.
C6_Witness ==
    /\ InvalidInvestmentType
    /\ invChoice = Some(3)
    /\ principal = Some(3000)
    /\ duration = Some(2)
    /\ pre.balance = 5000
    /\ msg = "Invalid investment type."

\* C7: after menu selections 4, 5 and 6 control is at the menu with balance and
\* both sequences unchanged, in any reachable state.
C7_ViewsChangeNothing ==
    choice \in 4 .. 6 => (pc = "menu" /\ Untouched)

\* The transaction history shown with a non-empty ledger.
C7_Witness ==
    /\ choice = 4
    /\ msg = "--- Transaction History ---"
    /\ Len(transactions) = 1
    /\ Len(investments) = 1

\* C8: in every step the previous transaction sequence is a prefix of the new
\* one and the previous investment sequence is a prefix of the new one.
C8_AppendOnly ==
    [][IsPrefix(transactions, transactions')
         /\ IsPrefix(investments, investments')]_vars

\* Two different transactions recorded one after the other, in that order.
C8_Witness ==
    /\ Len(transactions) = 2
    /\ transactions[1] = Income(3000, "Salary")
    /\ transactions[2] = Expenditure(1500, "Rent")

\* C9: every Transaction record in the ledger has amount >= 0.
C9_AmountsNonNegative ==
    \A i \in 1 .. Len(transactions) : transactions[i].amount >= 0

\* C10: every Investment record in the ledger has principal >= 0 and
\* durationYears >= 0.
C10_InvestmentsNonNegative ==
    \A i \in 1 .. Len(investments) :
        investments[i].principal >= 0 /\ investments[i].durationYears >= 0

\* C11: the controller reaches Exit exactly by selecting 0 at the main menu:
\* a step into Exit starts at the menu prompt and reads selection 0, selection
\* 0 at the menu always leads to Exit, no other selection does, the value 0 at
\* the investment-type prompt returns to the menu, and once in Exit nothing
\* changes any more.
C11_ExitOnlyOnZero ==
    [][/\ (pc # "exit" /\ pc' = "exit") => (pc = "menu" /\ choice' = 0)
       /\ (pc = "menu" /\ choice' = 0) => pc' = "exit"
       /\ (pc = "menu" /\ choice' # 0) => pc' # "exit"
       /\ (pc = "inv_type" /\ invChoice' = Some(0)) => pc' = "menu"
       /\ pc = "exit" => UNCHANGED vars]_vars

\* Exit selected after a transaction and an investment were recorded.
C11_Witness ==
    /\ pc = "exit"
    /\ choice = 0
    /\ Len(transactions) = 1
    /\ Len(investments) = 1

RECURSIVE SumAmounts(_, _)
\* Sum of the amounts of the records of category type in the sequence txs.
SumAmounts(txs, type) ==
    IF txs = <<>> THEN 0
    ELSE (IF Head(txs).type = type THEN Head(txs).amount ELSE 0)
             + SumAmounts(Tail(txs), type)

RECURSIVE SumPrincipals(_)
SumPrincipals(invs) ==
    IF invs = <<>> THEN 0
    ELSE Head(invs).principal + SumPrincipals(Tail(invs))

\* C15: whenever control is at the menu, balance = 5000 + sum of the Income
\* amounts - sum of the Expenditure amounts - sum of the investment principals.
C15_Conservation ==
    pc = "menu" =>
        balance = initialBalance + SumAmounts(transactions, "Income")
                      - SumAmounts(transactions, "Expenditure")
                      - SumPrincipals(investments)

\* An income of 3000 and a SIP of 4000: 5000 + 3000 - 4000 = 4000.
C15_Witness ==
    /\ pc = "menu"
    /\ transactions = <<Income(3000, "Salary")>>
    /\ Len(investments) = 1
    /\ investments[1].type = "SIP"
    /\ investments[1].principal = 4000
    /\ balance = 4000

\* C16: a menu iteration appends at most one record in total across the two
\* sequences; recordIncome and recordExpenditure leave the investment sequence
\* alone, and makeInvestment (committed SIP or FD included) leaves the
\* transaction sequence alone.
C16_OneRecordPerIteration ==
    /\ IsPrefix(pre.transactions, transactions)
    /\ IsPrefix(pre.investments, investments)
    /\ Len(transactions) + Len(investments)
           <= Len(pre.transactions) + Len(pre.investments) + 1
    /\ choice \in {1, 2} => investments = pre.investments
    /\ choice = 3 => transactions = pre.transactions

\* A fixed deposit committed after one transaction was recorded.
C16_Witness ==
    /\ pc = "menu"
    /\ choice = 3
    /\ invChoice = Some(2)
    /\ Len(investments) = Len(pre.investments) + 1
    /\ Len(transactions) = 1
    /\ transactions = pre.transactions

\* p * 1.071^d written out: p * 1071^d / 1000^d (annual compounding, d years).
AnnualCompounding(p, d) ==
    LET s == IF p < 0 THEN -1 ELSE 1
        a == BigOf(IF p < 0 THEN -p ELSE p)
    IN  IF d >= 0
          THEN Rat(s, BigMul(a, BigPow(<<1071>>, d)), BigPow(<<1000>>, d))
          ELSE Rat(s, BigMul(a, BigPow(<<1000>>, -d)), BigPow(<<1071>>, -d))

\* C12: the projection of every fixed deposit is principal * 1.071^durationYears
\* (annual compounding); FixedDeposit(1000, 5) matures to
\* 1000 * 1.071^5 = 1409.117972634351, and after FixedDeposit(3000, 2) is made
\* from balance 5000 the balance is 2000 and its projection is
\* 3000 * 1.071^2 = 3441.123.
C12_FixedDepositMaturity ==
    /\ \A k \in 1 .. Len(report) :
           investments[k].type = "Fixed Deposit" =>
               /\ RatEq(report[k].maturity,
                        AnnualCompounding(investments[k].principal,
                                          investments[k].durationYears))
               /\ investments[k] = FD(1000, 5) =>
                      RatEq(report[k].maturity,
                            Rat(1, <<4351, 7263, 1179, 1409>>, <<0, 0, 0, 1>>))
    /\ (investments = <<FD(3000, 2)>> /\ pc = "menu") =>
           /\ balance = 2000
           /\ report # <<>> => RatEq(report[1].maturity, RatLit(3441123, 1000))

\* FixedDeposit(3000, 2) made from 5000 and projected: printed as 3441.12 INR.
C12_Witness ==
    /\ choice = 6
    /\ investments = <<FD(3000, 2)>>
    /\ balance = 2000
    /\ Len(report) = 1
    /\ report[1].shown = 344112

\* p * 1.008^n + m * ((1.008^n - 1) / 0.008) with n = 12 * d, for every
\* recurring-contribution plan of the maturity examples, computed once.
AnnuityFormula(p, d, m) ==
    LET g == pow(RatLit(1008, 1000), 12 * d)
    IN  RatAdd(RatMul(RatOf(p), g),
               RatMul(RatOf(m), RatDiv(RatSub(g, RatOf(1)), RatLit(8, 1000))))
AnnuityTable ==
    {<<SIP(p, d, m), AnnuityFormula(p, d, m)>> :
        p \in MaturityPrincipals, d \in MaturityDurations,
        m \in MaturityMonthlies}
AnnuityValue(inv) == (CHOOSE row \in AnnuityTable : row[1] = inv)[2]
PureAnnuity ==
    RatMul(RatOf(1000),
           RatDiv(RatSub(pow(RatLit(1008, 1000), 12), RatOf(1)),
                  RatLit(8, 1000)))

\* C13: the projection of every recurring-contribution plan is
\* principal * (1 + r/12)^n + monthlyContribution * (((1 + r/12)^n - 1) / (r/12))
\* with r = 0.096 and n = durationYears * 12; RecurringContribution(0, 1, 1000)
\* gives the pure annuity term 1000 * ((1 + 0.008)^12 - 1) / 0.008.
C13_RecurringContributionMaturity ==
    \A k \in 1 .. Len(report) :
        investments[k].type = "SIP" =>
            /\ RatEq(report[k].maturity, AnnuityValue(investments[k]))
            /\ investments[k] = SIP(0, 1, 1000) =>
                   RatEq(report[k].maturity, PureAnnuity)

\* RecurringContribution(0, 1, 1000) projected: printed as 12542.34 INR.
C13_Witness ==
    /\ choice = 6
    /\ Len(report) = 2
    /\ investments[2] = SIP(0, 1, 1000)
    /\ report[2].shown = 1254234

\* C14: the projections report has exactly one entry per investment, in
\* insertion order: entry k carries index k, the category label of the k-th
\* investment and its maturity value (printed to 2 decimals); no entry is
\* written for an empty investment sequence or by any other selection.
C14_ProjectionsReport ==
    IF choice = 6
      THEN /\ Len(report) = Len(investments)
           /\ \A k \in 1 .. Len(investments) :
                  /\ report[k].index = k
                  /\ report[k].type = investments[k].type
                  /\ report[k].maturity = MaturityRow(investments[k])[2]
                  /\ report[k].shown \in MaturityRow(investments[k])[3]
      ELSE report = <<>>

\* A SIP and then a fixed deposit, projected in that order.
C14_Witness ==
    /\ choice = 6
    /\ Len(investments) = 2
    /\ investments[1].type = "SIP"
    /\ investments[2].type = "Fixed Deposit"
    /\ Len(report) = 2
    /\ report[1].type = "SIP"
    /\ report[2].index = 2

\* C17: at every numeric prompt a malformed entry is rejected and the same
\* prompt repeated with balance and both sequences unchanged and without
\* reaching Exit; an entry that is a syntactically valid number is not
\* rejected; and while no valid number is entered control stays in the prompt.
C17_Reprompting ==
    [][/\ getNumericInput_invalid =>
              (pc' = pc /\ pc' # "exit" /\ UNCHANGED ledger)
       /\ (cin = "good" /\ cin' = "eof_number") =>
              msg' # "Invalid input. Please enter a number."
       /\ cin # "good" => UNCHANGED <<pc, ledger>>]_vars
====
